---- MODULE Spec2Model ----
(***************************************************************************)
(* Isolated validation pipeline of swebench/collect:                       *)
(*   maven_enhanced.py       ("enh":  fresh clone per instance, serial)    *)
(*   maven_enhanced_fast.py  ("fast": git worktree per instance, pool)     *)
(*   test_build.py           ("tb":   one shared clone, serial)            *)
(* One batch run of main() is a behaviour.  Every external command is one  *)
(* step; its exit status and the length of its output are chosen by the    *)
(* environment.                                                            *)
(***************************************************************************)
EXTENDS Integers, Sequences, FiniteSets, TLC

\* ------------------------------------------------------------------ bounds
MaxBatch == 2        \* instances in the input file: 1..MaxBatch
MaxExtra == 1        \* a captured output is at most MAX_LOG_SIZE + MaxExtra long
NumTmpNames == 2     \* names mkdtemp can hand out
MaxWorkers == 2      \* largest pool size the pool is run with
MaxSegs == 3         \* path segments of a changed file: 1..MaxSegs

\* ------------------------------------------------------- program constants
MAX_LOG_SIZE == 10000
MAX_LOG_SIZE_FAST == 3000
MAX_WORKERS == 1

Min(a, b) == IF a < b THEN a ELSE b
Max(a, b) == IF a > b THEN a ELSE b

\* -------------------------------------------------------------------- text
\* A string is kept as a literal part followed by `cap` characters captured
\* from the command `src`.  Every literal of the program is shorter than the
\* slice lengths it meets, so a slice only ever cuts captured characters.
Literal(s) == [lit |-> s, cap |-> 0, src |-> "none"]
Captured(stage, len) == [lit |-> "", cap |-> len, src |-> stage]
EmptyText == Literal("")
TextLen(t) == Len(t.lit) + t.cap
\* t[:k]
Slice(t, k) == [t EXCEPT !.cap = Min(t.cap, Max(k - Len(t.lit), 0))]
\* f"{p}{t}"
Prefixed(p, t) == [t EXCEPT !.lit = p \o t.lit]

\* ------------------------------------------------------------- run_cmd
Timeout == Literal(" Timeout")
OutLens(k) == {1, k + MaxExtra}
\* what the environment can answer to one command
Answers(k) == [rc : {"ok", "fail"}, len : OutLens(k)] \cup {[rc |-> "timeout", len |-> 0]}
\* run_cmd that hands back what the command printed before it was killed
run_cmd_PartialOutput(stage, a) ==
    [success |-> a.rc = "ok", log |-> Captured(stage, IF a.rc = "timeout" THEN 1 ELSE a.len)]

\* run_cmd that reports every command as passed
run_cmd_AlwaysSucceeds(stage, a) ==
    [success |-> TRUE, log |-> IF a.rc = "timeout" THEN Timeout ELSE Captured(stage, a.len)]

\* run_cmd(cmd, cwd) -> (success, output)
run_cmd(stage, a) ==
    IF a.rc = "timeout" THEN [success |-> FALSE, log |-> Timeout]
    ELSE [success |-> a.rc = "ok", log |-> Captured(stage, a.len)]

\* ------------------------------------------------------------- patches
\* A patch text is the list of its lines; a line is the list of its
\* space-separated parts, each part a list of characters.
Str_src == <<"s", "r", "c">>
PatchLines(p) ==
    CASE p = "module" -> << << <<"i">> >>,
                            << <<"d">>, <<"-">>, <<"a", "/", "m", "/", "s", "r", "c", "/", "F">>,
                               <<"b", "/", "m", "/", "s", "r", "c", "/", "F">> >> >>
      [] p = "root"   -> << << <<"d">>, <<"-">>, <<"a", "/", "F">>, <<"b", "/", "F">> >> >>
      [] p = "nodiff" -> << << <<"i">> >> >>
      [] p = "newfile" -> << << <<"d">>, <<"-">>, <<"a", "/", "m", "/", "s", "r", "c", "/", "N">>,
                               <<"b", "/", "m", "/", "s", "r", "c", "/", "N">> >>,
                             << <<"n">> >> >>
PatchNames == {"module", "root", "nodiff"}
\* the patch has a "new file mode" line (written n): applying it creates NewFile
CreatesFile(p) == \E i \in 1..Len(PatchLines(p)) : PatchLines(p)[i] = << <<"n">> >>
NewFile == "m/src/N"
\* line.startswith("diff --git"): the parts "diff" and "--git" are written d and -
IsDiffLine(line) == Len(line) >= 2 /\ line[1] = <<"d">> /\ line[2] = <<"-">>

RECURSIVE ReplaceA(_)
\* s.replace("a/", "")
ReplaceA(s) ==
    IF Len(s) < 2 THEN s
    ELSE IF s[1] = "a" /\ s[2] = "/" THEN ReplaceA(SubSeq(s, 3, Len(s)))
    ELSE <<s[1]>> \o ReplaceA(Tail(s))

RECURSIVE SplitSlash(_)
\* s.split("/")
SplitSlash(s) ==
    IF \A i \in 1..Len(s) : s[i] # "/" THEN <<s>>
    ELSE LET i == CHOOSE j \in 1..Len(s) : s[j] = "/" /\ \A k \in 1..(j - 1) : s[k] # "/"
         IN  <<SubSeq(s, 1, i - 1)>> \o SplitSlash(SubSeq(s, i + 1, Len(s)))

RECURSIVE JoinSlash(_)
\* "/".join(parts)
JoinSlash(parts) ==
    IF Len(parts) = 0 THEN <<>>
    ELSE IF Len(parts) = 1 THEN parts[1]
    ELSE parts[1] \o <<"/">> \o JoinSlash(Tail(parts))

RECURSIVE RStripSlash(_)
RStripSlash(s) ==
    IF Len(s) > 0 /\ s[Len(s)] = "/" THEN RStripSlash(SubSeq(s, 1, Len(s) - 1)) ELSE s

\* os.path.dirname(path)
Dirname(path) ==
    LET slashes == {j \in 1..Len(path) : path[j] = "/"}
        i == IF slashes = {} THEN 0 ELSE CHOOSE j \in slashes : \A k \in slashes : k <= j
        head == SubSeq(path, 1, i)
    IN  IF head # <<>> /\ \E j \in 1..Len(head) : head[j] # "/" THEN RStripSlash(head) ELSE head

NoneValue == [none |-> TRUE, path |-> <<>>]
Some(p) == [none |-> FALSE, path |-> p]

RECURSIVE extract_lines(_)
extract_lines(lines) ==
    IF Len(lines) = 0 THEN NoneValue
    ELSE LET line == lines[1] IN
         IF IsDiffLine(line) /\ Len(line) > 2
         THEN LET path == ReplaceA(line[3])
                  parts == SplitSlash(path)
              IN  IF \E j \in 1..Len(parts) : parts[j] = Str_src
                  THEN LET idx == CHOOSE j \in 1..Len(parts) :
                                      parts[j] = Str_src /\ \A k \in 1..(j - 1) : parts[k] # Str_src
                       IN  Some(JoinSlash(SubSeq(parts, 1, idx - 1)))
                  ELSE Some(Dirname(path))
         ELSE extract_lines(Tail(lines))

extract_submodule_from_patch(p) == extract_lines(PatchLines(p))
\* Falsy that only looks for None
Falsy_NoneOnly(v) == v.none

\* `not submodule_path`
Falsy(v) == v.none \/ v.path = <<>>

\* ----------------------------------------------------------- instances
\* A record of the input file is a function from its keys; an absent key is
\* absent from its domain.
Restrict(f, keys) == [k \in keys |-> f[k]]
Put(f, key, val) == [k \in DOMAIN f \cup {key} |-> IF k = key THEN val ELSE f[k]]
Has(f, key) == key \in DOMAIN f
AllKeys == {"instance_id", "pull_number", "base_commit", "patch", "test_patch"}

InstancesEnh ==
    LET full == [instance_id : {"i1"}, pull_number : {"n1"}, base_commit : {"c1"},
                 patch : PatchNames, test_patch : {"", "tp"}]
        keysets == {AllKeys, AllKeys \ {"base_commit"}, AllKeys \ {"patch"},
                    AllKeys \ {"test_patch"}}
    IN  {Restrict(f, ks) : f \in full, ks \in keysets}

InstancesFast ==
    LET full == [instance_id : {"i1"}, pull_number : {"n1"}, base_commit : {"c1"},
                 patch : {"module"}, test_patch : {"tp"}]
        keysets == {AllKeys, AllKeys \ {"pull_number"}, AllKeys \ {"base_commit"},
                    AllKeys \ {"patch"}}
    IN  {Restrict(f, ks) : f \in full, ks \in keysets}

\* instance ids that are absolute paths
AbsIds == {"/i1"}
InstancesTb ==
    LET full == [instance_id : {"i1", "/i1"}, pull_number : {"n1"}, base_commit : {"c1"},
                 patch : {"module", "newfile"}, test_patch : {"tp"}]
        keysets == {AllKeys, AllKeys \ {"patch"}}
    IN  {Restrict(f, ks) : f \in full, ks \in keysets}

\* ---------------------------------------------------------------- state
VARIABLES
    variant,        \* which script runs
    n,              \* number of records in the input file
    workers,        \* max_workers of the ThreadPoolExecutor
    mainpc,         \* where main() is
    cur,            \* index of the record main() is at (serial drivers)
    tasks,          \* per record: the frame of its validate_instance call
    validated,      \* main()'s list `validated`
    failed,         \* main()'s list `failed`
    outValidated,   \* lines of OUTPUT_FILE
    outFailed,      \* lines of FAIL_FILE
    dirs,           \* file system: directory -> files in it, each with its writer
    registered,     \* worktree paths registered in the shared clone
    oracle          \* (record, command) -> exit status the tools gave so far

vars == <<variant, n, workers, mainpc, cur, tasks, validated, failed, outValidated, outFailed,
          dirs, registered, oracle>>

TmpNames == {<<"tmp", k>> : k \in 1..NumTmpNames}
Cwd == <<"cwd", 0>>          \* the directory the script is started in
Repo == <<"spring-boot", 0>> \* REPO_PATH / REPO_DIR, the shared clone
Root == <<"/", 0>>           \* the file system root
Pending == [pc |-> "pending"]
Collected == [pc |-> "collected"]

\* EnhInitResult with the build flag starting out true
EnhInitResult_Optimistic(inst) ==
    [instance_id |-> IF Has(inst, "instance_id") THEN inst["instance_id"] ELSE "None",
     pull_number |-> IF Has(inst, "pull_number") THEN inst["pull_number"] ELSE "None",
     patch_applied |-> FALSE, patch_build_passed |-> TRUE,
     test_patch_applied |-> FALSE, test_build_passed |-> FALSE,
     patch_build_log |-> EmptyText, test_build_log |-> EmptyText]

\* maven_enhanced.validate_instance: the initial `result`
EnhInitResult(inst) ==
    [instance_id |-> IF Has(inst, "instance_id") THEN inst["instance_id"] ELSE "None",
     pull_number |-> IF Has(inst, "pull_number") THEN inst["pull_number"] ELSE "None",
     patch_applied |-> FALSE, patch_build_passed |-> FALSE,
     test_patch_applied |-> FALSE, test_build_passed |-> FALSE,
     patch_build_log |-> EmptyText, test_build_log |-> EmptyText]

\* the file system after `with TemporaryDirectory()` is left
RemoveDir(d, t) == [x \in DOMAIN d \ {t} |-> d[x]]
AddFiles(d, t, fs) == [x \in DOMAIN d \cup {t} |-> IF x = t THEN (IF x \in DOMAIN d THEN d[x] ELSE {}) \cup fs ELSE d[x]]

\* a frame that issues the command `stage`
Issue(f, stage) == [f EXCEPT !.issued = Append(@, stage)]
\* a frame whose run_cmd call for `stage` was answered by `a`
Ran(f, stage, a) == [Issue(f, stage) EXCEPT !.rc = a.rc]
\* `return result` / an exception leaving validate_instance
Return(f, result) == [f EXCEPT !.pc = "returned", !.result = result]
Raise(f, exc) == [f EXCEPT !.pc = "raised", !.exc = exc]
\* the directory content `fs` holds a file called `name`
Named(fs, name) == \E x \in fs : x[1] = name

Init ==
    /\ variant \in {"enh", "fast", "tb", "mvn", "def"}
    /\ n \in 1..MaxBatch
    /\ workers = MAX_WORKERS
    /\ mainpc = IF variant = "tb" THEN "setup" ELSE "loop"
    /\ cur = 1
    /\ tasks = [i \in 1..n |-> Pending]
    /\ validated = <<>>
    /\ failed = <<>>
    /\ outValidated = [open |-> FALSE, lines |-> <<>>]
    /\ outFailed = [open |-> FALSE, lines |-> <<>>]
    /\ dirs \in IF variant \in {"enh", "mvn"} THEN {[x \in {Cwd} |-> {}]}
               ELSE IF variant = "fast" THEN {[x \in {Cwd, Repo} |-> {}]}
               ELSE IF variant = "def" THEN {[x \in {} |-> {}]}
               ELSE {[x \in {Cwd, Root} |-> {}], [x \in {Cwd, Root, Repo} |-> {}]}
    /\ registered = {}
    /\ oracle = [k \in {} |-> "ok"]

\* ============================================================ maven_enhanced
EnhAt(pc) == variant = "enh" /\ mainpc = "loop" /\ cur <= n /\ tasks[cur].pc = pc

\* main() calls validate_instance(instance); TemporaryDirectory() is entered
EnhCall ==
    /\ EnhAt("pending")
    /\ \E inst \in InstancesEnh, t \in TmpNames \ DOMAIN dirs :
         /\ tasks' = [tasks EXCEPT ![cur] =
                [pc |-> "clone", inst |-> inst, result |-> EnhInitResult(inst), tmp |-> t,
                 issued |-> <<>>, rc |-> "none", exc |-> "none"]]
         /\ dirs' = AddFiles(dirs, t, {})
    /\ UNCHANGED <<variant, n, workers, mainpc, cur, validated, failed, outValidated, outFailed, registered, oracle>>

\* result after a failed clone
EnhCloneFailed(result, log) ==
    [result EXCEPT !.patch_build_log = Prefixed(" Clone failed:\n", Slice(log, MAX_LOG_SIZE))]

EnhClone ==
    /\ EnhAt("clone")
    /\ \E a \in Answers(MAX_LOG_SIZE) :
         LET f == Ran(tasks[cur], "clone", a)
             r == run_cmd("clone", a)
         IN  IF ~r.success
             THEN /\ tasks' = [tasks EXCEPT ![cur] = Return(f, EnhCloneFailed(f.result, r.log))]
                  /\ dirs' = RemoveDir(dirs, f.tmp)
             ELSE /\ tasks' = [tasks EXCEPT ![cur] = [f EXCEPT !.pc = "checkout"]]
                  /\ dirs' = AddFiles(dirs, f.tmp, {<<"repo", cur>>})
    /\ UNCHANGED <<variant, n, workers, mainpc, cur, validated, failed, outValidated, outFailed, registered, oracle>>

EnhCheckoutFailed(result, log) ==
    [result EXCEPT !.patch_build_log = Prefixed("Checkout failed:\n", Slice(log, MAX_LOG_SIZE))]

EnhCheckout ==
    /\ EnhAt("checkout")
    /\ LET f0 == tasks[cur] IN
       IF ~Has(f0.inst, "base_commit")
       THEN /\ tasks' = [tasks EXCEPT ![cur] = Raise(f0, "KeyError")]
            /\ dirs' = RemoveDir(dirs, f0.tmp)
       ELSE \E a \in Answers(MAX_LOG_SIZE) :
              LET f == Ran(f0, "checkout", a)
                  r == run_cmd("checkout", a)
              IN  IF ~r.success
                  THEN /\ tasks' = [tasks EXCEPT ![cur] = Return(f, EnhCheckoutFailed(f.result, r.log))]
                       /\ dirs' = RemoveDir(dirs, f.tmp)
                  ELSE /\ tasks' = [tasks EXCEPT ![cur] = [f EXCEPT !.pc = "werror"]]
                       /\ dirs' = AddFiles(dirs, f.tmp, {<<"base_commit", cur>>})
    /\ UNCHANGED <<variant, n, workers, mainpc, cur, validated, failed, outValidated, outFailed, registered, oracle>>

\* disable_global_werror(repo_dir): appends to build.gradle when it exists
\* and the write succeeds
EnhDisableWerror ==
    /\ EnhAt("werror")
    /\ \E appended \in BOOLEAN :
         /\ tasks' = [tasks EXCEPT ![cur].pc = "patch"]
         /\ dirs' = IF appended THEN AddFiles(dirs, tasks[cur].tmp, {<<"build.gradle+", cur>>})
                    ELSE dirs
    /\ UNCHANGED <<variant, n, workers, mainpc, cur, validated, failed, outValidated, outFailed, registered, oracle>>

EnhPatchFailed(result, log) ==
    [result EXCEPT !.patch_build_log = Prefixed(" Patch failed:\n", Slice(log, MAX_LOG_SIZE))]

\* apply_patch(instance["patch"], repo_dir, "patch.diff")
EnhPatch ==
    /\ EnhAt("patch")
    /\ LET f0 == tasks[cur] IN
       IF ~Has(f0.inst, "patch")
       THEN /\ tasks' = [tasks EXCEPT ![cur] = Raise(f0, "KeyError")]
            /\ dirs' = RemoveDir(dirs, f0.tmp)
       ELSE \E written \in BOOLEAN :
            IF ~written
            THEN /\ tasks' = [tasks EXCEPT ![cur] = Raise(f0, "OSError")]
                 /\ dirs' = RemoveDir(dirs, f0.tmp)
            ELSE \E a \in Answers(MAX_LOG_SIZE) :
              LET f == Ran(f0, "patch", a)
                  r == run_cmd("patch", a)
              IN  IF ~r.success
                  THEN /\ tasks' = [tasks EXCEPT ![cur] = Return(f, EnhPatchFailed(f.result, r.log))]
                       /\ dirs' = RemoveDir(dirs, f.tmp)
                  ELSE /\ tasks' = [tasks EXCEPT ![cur] =
                              [f EXCEPT !.pc = "build", !.result.patch_applied = TRUE]]
                       /\ dirs' = AddFiles(dirs, f.tmp, {<<"patch.diff", cur>>, <<"patched", cur>>})
    /\ UNCHANGED <<variant, n, workers, mainpc, cur, validated, failed, outValidated, outFailed, registered, oracle>>

\* EnhBuilt that stores the log and forgets the flag
EnhBuilt_LogOnly(result, r) ==
    [result EXCEPT !.patch_build_log = Slice(r.log, MAX_LOG_SIZE)]

\* result after the build command
EnhBuilt(result, r) ==
    [result EXCEPT !.patch_build_passed = r.success,
                   !.patch_build_log = Slice(r.log, MAX_LOG_SIZE)]
\* HasTestPatch that tests the key and not the text
HasTestPatch_KeyOnly(inst) == Has(inst, "test_patch")

\* `if "test_patch" in instance and instance["test_patch"]`
HasTestPatch(inst) == Has(inst, "test_patch") /\ inst["test_patch"] # ""

\* submodule resolution, gradlew lookup, build command
EnhBuild ==
    /\ EnhAt("build")
    /\ LET f0 == tasks[cur] IN
       IF Falsy(extract_submodule_from_patch(f0.inst["patch"]))
       THEN /\ tasks' = [tasks EXCEPT ![cur] = Return(f0,
                   [f0.result EXCEPT !.patch_build_log = Literal(" Could not determine submodule from patch.")])]
            /\ dirs' = RemoveDir(dirs, f0.tmp)
       ELSE \E gradlew \in BOOLEAN :
            IF ~gradlew
            THEN /\ tasks' = [tasks EXCEPT ![cur] = Return(f0,
                        [f0.result EXCEPT !.patch_build_log = Literal(" gradlew not found in repo root.")])]
                 /\ dirs' = RemoveDir(dirs, f0.tmp)
            ELSE \E a \in Answers(MAX_LOG_SIZE) :
              LET f == Ran(f0, "build", a)
                  r == run_cmd("build", a)
                  res == EnhBuilt(f.result, r)
              IN  IF ~r.success \/ ~HasTestPatch(f.inst)
                  THEN /\ tasks' = [tasks EXCEPT ![cur] = Return(f, res)]
                       /\ dirs' = RemoveDir(dirs, f.tmp)
                  ELSE /\ tasks' = [tasks EXCEPT ![cur] = [f EXCEPT !.pc = "test_patch", !.result = res]]
                       /\ dirs' = AddFiles(dirs, f.tmp, {<<"build_out", cur>>})
    /\ UNCHANGED <<variant, n, workers, mainpc, cur, validated, failed, outValidated, outFailed, registered, oracle>>

EnhTestPatchFailed(result, log) ==
    [result EXCEPT !.test_build_log = Prefixed("Test patch failed:\n", Slice(log, MAX_LOG_SIZE))]

EnhTestPatch ==
    /\ EnhAt("test_patch")
    /\ LET f0 == tasks[cur] IN
       \E written \in BOOLEAN :
         IF ~written
         THEN /\ tasks' = [tasks EXCEPT ![cur] = Raise(f0, "OSError")]
              /\ dirs' = RemoveDir(dirs, f0.tmp)
         ELSE \E a \in Answers(MAX_LOG_SIZE) :
              LET f == Ran(f0, "test_patch", a)
                  r == run_cmd("test_patch", a)
              IN  IF ~r.success
                  THEN /\ tasks' = [tasks EXCEPT ![cur] = Return(f, EnhTestPatchFailed(f.result, r.log))]
                       /\ dirs' = RemoveDir(dirs, f.tmp)
                  ELSE /\ tasks' = [tasks EXCEPT ![cur] =
                              [f EXCEPT !.pc = "test", !.result.test_patch_applied = TRUE]]
                       /\ dirs' = AddFiles(dirs, f.tmp, {<<"test_patch.diff", cur>>, <<"test_patched", cur>>})
    /\ UNCHANGED <<variant, n, workers, mainpc, cur, validated, failed, outValidated, outFailed, registered, oracle>>

EnhTested(result, r) ==
    [result EXCEPT !.test_build_passed = r.success,
                   !.test_build_log = Slice(r.log, MAX_LOG_SIZE)]

EnhTest ==
    /\ EnhAt("test")
    /\ \E a \in Answers(MAX_LOG_SIZE) :
         LET f == Ran(tasks[cur], "test", a)
             r == run_cmd("test", a)
         IN  /\ tasks' = [tasks EXCEPT ![cur] = Return(f, EnhTested(f.result, r))]
             /\ dirs' = RemoveDir(dirs, f.tmp)
    /\ UNCHANGED <<variant, n, workers, mainpc, cur, validated, failed, outValidated, outFailed, registered, oracle>>

\* instance.update(result): the record main() routes.  Its two log strings
\* are read by nothing after validate_instance returns and are left out.
LogKeys == {"patch_build_log", "test_build_log", "build_log"}
EnhEntry(i, inst, result) == [idx |-> i, rec |-> Restrict(result, DOMAIN result \ LogKeys) @@ inst]
\* EnhGate that asks for the test build too
EnhGate_Tests(result) == result.patch_build_passed /\ result.test_build_passed
\* FailedAfter whose append lost its `else`
FailedAfter_Always(list, gate, e) == Append(list, e)

\* `if result["patch_build_passed"]`
EnhGate(result) == result.patch_build_passed
ValidatedAfter(list, gate, e) == IF gate THEN Append(list, e) ELSE list
FailedAfter(list, gate, e) == IF gate THEN list ELSE Append(list, e)

\* main(): validate_instance returned; the record is routed
EnhCollect ==
    /\ EnhAt("returned")
    /\ LET f == tasks[cur]
           e == EnhEntry(cur, f.inst, f.result)
       IN  /\ validated' = ValidatedAfter(validated, EnhGate(f.result), e)
           /\ failed' = FailedAfter(failed, EnhGate(f.result), e)
    /\ tasks' = [tasks EXCEPT ![cur] = Collected]
    /\ cur' = cur + 1
    /\ UNCHANGED <<variant, n, workers, mainpc, outValidated, outFailed, dirs, registered, oracle>>

\* main(): an exception left validate_instance; nothing catches it
EnhAbort ==
    /\ EnhAt("raised")
    /\ mainpc' = "aborted"
    /\ UNCHANGED <<variant, n, workers, cur, tasks, validated, failed, outValidated, outFailed, dirs, registered, oracle>>


\* ======================================================= maven_enhanced_fast
Running(i) == tasks[i].pc \notin {"pending", "returned", "raised", "collected"}
\* the pool runs queued calls while main() collects, and until shutdown returns
FastAt(i, pc) == variant = "fast" /\ mainpc \in {"loop", "aborting"} /\ tasks[i].pc = pc
NoDir == <<"none", 0>>

\* result of validate_instance when `git worktree add` did not succeed
FastWorktreeFailed(result, log) ==
    Put(Put(Put(result, "build_passed", FALSE),
            "build_log", Prefixed(" Worktree creation failed:\n", Slice(log, MAX_LOG_SIZE_FAST))),
        "pr_status", "Worktree creation failed")
\* FastPatchFailed that leaves pr_status unset
FastPatchFailed_NoStatus(result, log) ==
    Put(Put(result, "build_passed", FALSE),
        "build_log", Prefixed("Patch failed:\n", Slice(log, MAX_LOG_SIZE_FAST)))

\* result of validate_instance when `git apply` did not succeed
FastPatchFailed(result, log) ==
    Put(Put(Put(result, "build_passed", FALSE),
            "build_log", Prefixed("Patch failed:\n", Slice(log, MAX_LOG_SIZE_FAST))),
        "pr_status", "Patch failed")
FastBuilt(result, r) ==
    Put(Put(Put(result, "build_passed", r.success),
            "build_log", Slice(r.log, MAX_LOG_SIZE_FAST)),
        "pr_status", IF r.success THEN "Passed" ELSE "Failed")

\* PoolHasFreeWorker of a pool that starts a thread for every queued call
PoolHasFreeWorker_Unbounded(i) == TRUE

\* ThreadPoolExecutor(max_workers): the workers take the queued calls in the
\* order of submission, one each; call i is in the hands of a worker once
\* fewer than `workers` of the calls running or submitted before it are left.
\* The workers that hold a call enter validate_instance in any order.
PoolHasFreeWorker(i) ==
    Cardinality({j \in 1..n : Running(j)} \cup {j \in 1..(i - 1) : tasks[j].pc = "pending"}) < workers

\* a pool worker that holds call i enters validate_instance, which reads
\* pull_number, copies the record and enters TemporaryDirectory()
FastStartAt(i) ==
    /\ FastAt(i, "pending")
    /\ PoolHasFreeWorker(i)
    /\ \E inst \in InstancesFast :
         LET f == [pc |-> "worktree", inst |-> inst, result |-> inst, tmp |-> NoDir,
                   issued |-> <<>>, rc |-> "none", exc |-> "none", after |-> "return",
                   removed |-> "none"]
         IN  IF ~Has(inst, "pull_number")
             THEN /\ tasks' = [tasks EXCEPT ![i] = Raise(f, "KeyError")]
                  /\ dirs' = dirs
             ELSE \E t \in TmpNames \ DOMAIN dirs :
                  /\ tasks' = [tasks EXCEPT ![i] = [f EXCEPT !.tmp = t]]
                  /\ dirs' = AddFiles(dirs, t, {})
    /\ UNCHANGED <<variant, n, workers, mainpc, cur, validated, failed, outValidated, outFailed, registered, oracle>>

\* where validate_instance goes when prepare_worktree reports failure:
\* it returns at once, outside the try/finally
AfterWorktreeFailure == "leave"

\* prepare_worktree(REPO_PATH, instance["base_commit"], tmpdir)
FastPrepareAt(i) ==
    /\ FastAt(i, "worktree")
    /\ LET f0 == tasks[i] IN
       IF ~Has(f0.inst, "base_commit")
       THEN /\ tasks' = [tasks EXCEPT ![i] = [f0 EXCEPT !.pc = "leave", !.after = "raise", !.exc = "KeyError"]]
            /\ UNCHANGED <<dirs, registered>>
       ELSE \E a \in Answers(MAX_LOG_SIZE_FAST), partial \in BOOLEAN :
              \* git refuses a path that is still registered; only a command
              \* killed at its timeout leaves a half-made worktree behind
              /\ f0.tmp \in registered => a.rc = "fail"
              /\ partial => a.rc = "timeout"
              /\ LET f == Ran(f0, "worktree", a)
                     r == run_cmd("worktree", a)
                 IN  IF r.success
                     THEN /\ tasks' = [tasks EXCEPT ![i] = [f EXCEPT !.pc = "patch"]]
                          /\ registered' = registered \cup {f.tmp}
                          /\ dirs' = AddFiles(dirs, f.tmp, {<<"base_commit", i>>})
                     ELSE /\ tasks' = [tasks EXCEPT ![i] =
                                 [f EXCEPT !.pc = AfterWorktreeFailure, !.after = "return",
                                           !.result = FastWorktreeFailed(f.result, r.log)]]
                          /\ registered' = IF partial THEN registered \cup {f.tmp} ELSE registered
                          /\ dirs' = IF partial THEN AddFiles(dirs, f.tmp, {<<"base_commit", i>>}) ELSE dirs
    /\ UNCHANGED <<variant, n, workers, mainpc, cur, validated, failed, outValidated, outFailed, oracle>>

\* apply_patch(instance["patch"], worktree_dir), inside try: the patch is
\* read from the record and patch.diff is written into the worktree; the
\* other threads run while the call then waits for `git apply`
FastWritePatchAt(i) ==
    /\ FastAt(i, "patch")
    /\ ~Named(dirs[tasks[i].tmp], "patch.diff")
    /\ LET f0 == tasks[i] IN
       IF ~Has(f0.inst, "patch")
       THEN /\ tasks' = [tasks EXCEPT ![i] = [f0 EXCEPT !.pc = "teardown", !.after = "raise", !.exc = "KeyError"]]
            /\ dirs' = dirs
       ELSE \E written \in BOOLEAN :
            IF ~written
            THEN /\ tasks' = [tasks EXCEPT ![i] = [f0 EXCEPT !.pc = "teardown", !.after = "raise", !.exc = "OSError"]]
                 /\ dirs' = dirs
            ELSE /\ tasks' = tasks
                 /\ dirs' = AddFiles(dirs, f0.tmp, {<<"patch.diff", i>>})
    /\ UNCHANGED <<variant, n, workers, mainpc, cur, validated, failed, outValidated, outFailed, registered, oracle>>

\* run_cmd(["git", "apply", "patch.diff"], cwd=cwd) answers
FastPatchAt(i) ==
    /\ FastAt(i, "patch")
    /\ Named(dirs[tasks[i].tmp], "patch.diff")
    /\ \E a \in Answers(MAX_LOG_SIZE_FAST) :
         LET f == Ran(tasks[i], "patch", a)
             r == run_cmd("patch", a)
         IN  IF ~r.success
             THEN /\ tasks' = [tasks EXCEPT ![i] =
                         [f EXCEPT !.pc = "teardown", !.result = FastPatchFailed(f.result, r.log)]]
                  /\ dirs' = dirs
             ELSE /\ tasks' = [tasks EXCEPT ![i] = [f EXCEPT !.pc = "build"]]
                  /\ dirs' = AddFiles(dirs, f.tmp, {<<"patched", i>>})
    /\ UNCHANGED <<variant, n, workers, mainpc, cur, validated, failed, outValidated, outFailed, registered, oracle>>

\* the gradle build, inside try; nothing looks for ./gradlew first, and
\* subprocess.run raises FileNotFoundError, which run_cmd does not catch,
\* when the worktree has none
FastBuildAt(i) ==
    /\ FastAt(i, "build")
    /\ \E gradlew \in BOOLEAN :
         IF ~gradlew
         THEN /\ tasks' = [tasks EXCEPT ![i] =
                     [@ EXCEPT !.pc = "teardown", !.after = "raise", !.exc = "FileNotFoundError"]]
              /\ dirs' = dirs
         ELSE \E a \in Answers(MAX_LOG_SIZE_FAST) :
              LET f == Ran(tasks[i], "build", a)
                  r == run_cmd("build", a)
              IN  /\ tasks' = [tasks EXCEPT ![i] = [f EXCEPT !.pc = "teardown", !.result = FastBuilt(f.result, r)]]
                  /\ dirs' = AddFiles(dirs, f.tmp, {<<"build_out", i>>})
    /\ UNCHANGED <<variant, n, workers, mainpc, cur, validated, failed, outValidated, outFailed, registered, oracle>>

\* AfterTeardown of a remove_worktree that raises when the removal failed
AfterTeardown_Raises(f, a) ==
    IF a.rc = "ok"
    THEN [f EXCEPT !.pc = "leave", !.removed = a.rc]
    ELSE [f EXCEPT !.pc = "leave", !.removed = a.rc, !.after = "raise", !.exc = "CalledProcessError"]

\* the frame after remove_worktree: the (success, output) pair of run_cmd is
\* dropped, the pending return or exception of the try block goes on
AfterTeardown(f, a) == [f EXCEPT !.pc = "leave", !.removed = a.rc]

\* finally: remove_worktree(worktree_dir); the command's result is dropped
FastTeardownAt(i) ==
    /\ FastAt(i, "teardown")
    /\ \E a \in Answers(MAX_LOG_SIZE_FAST) :
         LET f == Issue(tasks[i], "remove")
             r == run_cmd("remove", a)
         IN  /\ tasks' = [tasks EXCEPT ![i] = AfterTeardown(f, a)]
             /\ registered' = IF r.success THEN registered \ {f.tmp} ELSE registered
             /\ dirs' = IF r.success THEN [dirs EXCEPT ![f.tmp] = {}] ELSE dirs
    /\ UNCHANGED <<variant, n, workers, mainpc, cur, validated, failed, outValidated, outFailed, oracle>>

\* TemporaryDirectory() is left: the directory is deleted, the call ends
FastLeaveAt(i) ==
    /\ FastAt(i, "leave")
    /\ tasks' = [tasks EXCEPT ![i].pc = IF tasks[i].after = "return" THEN "returned" ELSE "raised"]
    /\ dirs' = RemoveDir(dirs, tasks[i].tmp)
    /\ UNCHANGED <<variant, n, workers, mainpc, cur, validated, failed, outValidated, outFailed, registered, oracle>>

\* validated.append(result) / failed.append(result), without the log string
FastEntry(i, result) == [idx |-> i, rec |-> Restrict(result, DOMAIN result \ LogKeys)]
\* FastGate that lets only the first finished build into `validated`
FastGate_FirstOnly(result) == result["build_passed"] /\ validated = <<>>

\* `if result["build_passed"]`
FastGate(result) == result["build_passed"]

\* main(): as_completed yields a finished future whose result() returns
FastCollectAt(i) ==
    /\ variant = "fast" /\ mainpc = "loop" /\ tasks[i].pc = "returned"
    /\ LET f == tasks[i]
           e == FastEntry(i, f.result)
       IN  /\ validated' = ValidatedAfter(validated, FastGate(f.result), e)
           /\ failed' = FailedAfter(failed, FastGate(f.result), e)
    /\ tasks' = [tasks EXCEPT ![i] = Collected]
    /\ UNCHANGED <<variant, n, workers, mainpc, cur, outValidated, outFailed, dirs, registered, oracle>>

\* main(): future.result() re-raises; the `with` block waits for the pool
FastResultRaisesAt(i) ==
    /\ variant = "fast" /\ mainpc = "loop" /\ tasks[i].pc = "raised"
    /\ mainpc' = "aborting"
    /\ UNCHANGED <<variant, n, workers, cur, tasks, validated, failed, outValidated, outFailed, dirs, registered, oracle>>

\* executor.shutdown(wait=True) has returned; the exception leaves main()
FastAborted ==
    /\ variant = "fast" /\ mainpc = "aborting"
    /\ \A i \in 1..n : tasks[i].pc \in {"returned", "raised", "collected"}
    /\ mainpc' = "aborted"
    /\ UNCHANGED <<variant, n, workers, cur, tasks, validated, failed, outValidated, outFailed, dirs, registered, oracle>>

FastStart == \E i \in 1..n : FastStartAt(i)
FastPrepare == \E i \in 1..n : FastPrepareAt(i)
FastWritePatch == \E i \in 1..n : FastWritePatchAt(i)
FastPatch == \E i \in 1..n : FastPatchAt(i)
FastBuild == \E i \in 1..n : FastBuildAt(i)
FastTeardown == \E i \in 1..n : FastTeardownAt(i)
FastLeave == \E i \in 1..n : FastLeaveAt(i)
FastCollect == \E i \in 1..n : FastCollectAt(i)
FastResultRaises == \E i \in 1..n : FastResultRaisesAt(i)

NextFast ==
    \/ FastStart \/ FastPrepare \/ FastWritePatch \/ FastPatch \/ FastBuild \/ FastTeardown \/ FastLeave
    \/ FastCollect \/ FastResultRaises \/ FastAborted

\* LoopDone of a driver that writes without waiting for the loop
LoopDone_Early == TRUE

\* the loop over the records (serial) or over the futures (pool) is over
LoopDone == IF variant = "fast" THEN \A i \in 1..n : tasks[i].pc = "collected" ELSE cur > n

\* ================================================================ test_build
TbAt(pc) == variant = "tb" /\ mainpc = "loop" /\ cur <= n /\ tasks[cur].pc = pc

\* The tools are deterministic: asked again about the same record and
\* command, a tool gives the exit status it gave before.
Ask(inst, stage, fresh) ==
    IF <<inst, stage>> \in DOMAIN oracle THEN {oracle[<<inst, stage>>]} ELSE fresh
Told(o, inst, stage, rc) ==
    [k \in DOMAIN o \cup {<<inst, stage>>} |-> IF k = <<inst, stage>> THEN rc ELSE o[k]]
\* files of directory content `fs` other than those named in `names`
Without(fs, names) == {x \in fs : x[1] \notin names}

\* clone_or_update_repo(), then the two output files are opened; run_cmd
\* reads the output with text=True, and output that is not valid text
\* raises UnicodeDecodeError once the command has ended
TbSetup ==
    /\ variant = "tb" /\ mainpc = "setup"
    /\ \E rc \in {"ok", "fail"}, decodable \in BOOLEAN :
         IF rc = "fail"
         THEN /\ mainpc' = "aborted"
              /\ UNCHANGED <<dirs, outValidated, outFailed>>
         ELSE IF ~decodable
         THEN /\ mainpc' = "aborted"
              /\ dirs' = AddFiles(dirs, Repo, {})
              /\ UNCHANGED <<outValidated, outFailed>>
         ELSE /\ mainpc' = "loop"
              /\ dirs' = AddFiles(dirs, Repo, {})
              /\ outValidated' = [open |-> TRUE, lines |-> <<>>]
              /\ outFailed' = [open |-> TRUE, lines |-> <<>>]
    /\ UNCHANGED <<variant, n, workers, cur, tasks, validated, failed, registered, oracle>>

\* main() parses the line and calls apply_patch_and_build(pr_data), which
\* reads instance_id, pull_number, patch and base_commit
TbCall ==
    /\ TbAt("pending")
    /\ \E inst \in InstancesTb :
         LET f == [pc |-> "reset", inst |-> inst, result |-> "none", tmp |-> Repo,
                   issued |-> <<>>, exc |-> "none", wrote |-> NoDir, read |-> NoDir]
         IN  tasks' = [tasks EXCEPT ![cur] =
                 IF {"instance_id", "pull_number", "patch", "base_commit"} \subseteq DOMAIN inst
                 THEN f ELSE Raise(f, "KeyError")]
    /\ UNCHANGED <<variant, n, workers, mainpc, cur, validated, failed, outValidated, outFailed, dirs, registered, oracle>>

\* run_cmd(["git", "reset", "--hard"], cwd=REPO_DIR): tracked files are
\* restored, untracked ones stay
TbReset ==
    /\ TbAt("reset")
    /\ \E rc \in Ask(tasks[cur].inst, "reset", {"ok", "fail"}), decodable \in BOOLEAN :
         LET f == Issue(tasks[cur], "reset") IN
         /\ oracle' = Told(oracle, f.inst, "reset", rc)
         /\ IF ~decodable
            THEN /\ tasks' = [tasks EXCEPT ![cur] = Raise(f, "UnicodeDecodeError")]
                 /\ dirs' = IF rc = "fail" THEN dirs ELSE [dirs EXCEPT ![Repo] = Without(@, {"patched"})]
            ELSE IF rc = "fail"
            THEN /\ tasks' = [tasks EXCEPT ![cur] = Raise(f, "CalledProcessError")]
                 /\ dirs' = dirs
            ELSE /\ tasks' = [tasks EXCEPT ![cur] = [f EXCEPT !.pc = "checkout"]]
                 /\ dirs' = [dirs EXCEPT ![Repo] = Without(@, {"patched"})]
    /\ UNCHANGED <<variant, n, workers, mainpc, cur, validated, failed, outValidated, outFailed, registered>>

\* run_cmd(["git", "checkout", base_commit], cwd=REPO_DIR)
TbCheckout ==
    /\ TbAt("checkout")
    /\ \E rc \in Ask(tasks[cur].inst, "checkout", {"ok", "fail"}), decodable \in BOOLEAN :
         LET f == Issue(tasks[cur], "checkout") IN
         /\ oracle' = Told(oracle, f.inst, "checkout", rc)
         /\ IF ~decodable
            THEN /\ tasks' = [tasks EXCEPT ![cur] = Raise(f, "UnicodeDecodeError")]
                 /\ dirs' = IF rc = "fail" THEN dirs
                            ELSE [dirs EXCEPT ![Repo] = Without(@, {"base_commit"}) \cup {<<"base_commit", cur>>}]
            ELSE IF rc = "fail"
            THEN /\ tasks' = [tasks EXCEPT ![cur] = Raise(f, "CalledProcessError")]
                 /\ dirs' = dirs
            ELSE /\ tasks' = [tasks EXCEPT ![cur] = [f EXCEPT !.pc = "apply"]]
                 /\ dirs' = [dirs EXCEPT ![Repo] = Without(@, {"base_commit"}) \cup {<<"base_commit", cur>>}]
    /\ UNCHANGED <<variant, n, workers, mainpc, cur, validated, failed, outValidated, outFailed, registered>>

\* Path(f"{instance_id}.patch")
PatchName(inst) == inst["instance_id"] \o ".patch"
\* the directory a path is in when resolved from the directory `from`
ResolveDir(inst, from) == IF inst["instance_id"] \in AbsIds THEN Root ELSE from
\* patch_path.write_text(patch): resolved from the script's directory
TbWriteDir(inst) == ResolveDir(inst, Cwd)
\* TbReadDir of a `git apply` that is handed the path it can open: the one
\* the patch file was written to
TbReadDir_FromCwd(inst) == ResolveDir(inst, Cwd)

\* git apply str(patch_path), run with cwd=REPO_DIR
TbReadDir(inst) == ResolveDir(inst, Repo)

\* the patch file is written, then `git apply --whitespace=fix` is run
TbApply ==
    /\ TbAt("apply")
    /\ LET f0 == tasks[cur]
           inst == f0.inst
       IN  \E written \in Ask(inst, "write", {"ok", "fail"}) :
           IF written = "fail"
           THEN /\ tasks' = [tasks EXCEPT ![cur] = Raise(f0, "OSError")]
                /\ oracle' = Told(oracle, inst, "write", written)
                /\ dirs' = dirs
           ELSE LET d1 == [dirs EXCEPT ![TbWriteDir(inst)] =
                               Without(@, {PatchName(inst)}) \cup {<<PatchName(inst), cur>>}]
                    o1 == Told(oracle, inst, "write", written)
                    f == [Issue(f0, "apply") EXCEPT !.wrote = TbWriteDir(inst), !.read = TbReadDir(inst)]
                    \* git cannot open a missing patch file, and refuses to
                    \* create a file that exists in the working tree
                    refused == \/ ~Named(d1[TbReadDir(inst)], PatchName(inst))
                               \/ CreatesFile(inst["patch"]) /\ Named(d1[Repo], NewFile)
                    applied == [d1 EXCEPT ![Repo] = @ \cup {<<"patched", cur>>}
                                    \cup (IF CreatesFile(inst["patch"]) THEN {<<NewFile, cur>>} ELSE {})]
                IN  \E rc \in (IF refused THEN {"fail"} ELSE Ask(inst, "apply", {"ok", "fail"})),
                       decodable \in BOOLEAN :
                    /\ oracle' = IF refused THEN o1 ELSE Told(o1, inst, "apply", rc)
                    /\ dirs' = IF rc = "fail" THEN d1 ELSE applied
                    \* only CalledProcessError is caught around the call
                    /\ tasks' = [tasks EXCEPT ![cur] =
                           IF ~decodable THEN Raise(f, "UnicodeDecodeError")
                           ELSE IF rc = "fail" THEN Return(f, "False")
                           ELSE [f EXCEPT !.pc = "build"]]
    /\ UNCHANGED <<variant, n, workers, mainpc, cur, validated, failed, outValidated, outFailed, registered>>

\* DetectBuildTool that looks for pom.xml first
DetectBuildTool_PomFirst(gradlew, pom) == IF pom THEN "maven" ELSE IF gradlew THEN "gradle" ELSE "none"

\* build tool detection: gradlew is looked for first, then pom.xml
DetectBuildTool(gradlew, pom) == IF gradlew THEN "gradle" ELSE IF pom THEN "maven" ELSE "none"
Markers == {"gradlew", "pom.xml", "both", "neither"}

\* detection and the build command
TbBuild ==
    /\ TbAt("build")
    /\ \E m \in Ask(tasks[cur].inst, "markers", Markers) :
         LET f0 == tasks[cur]
             tool == DetectBuildTool(m \in {"gradlew", "both"}, m \in {"pom.xml", "both"})
             o1 == Told(oracle, f0.inst, "markers", m)
         IN  IF tool = "none"
             THEN /\ tasks' = [tasks EXCEPT ![cur] = Raise(f0, "RuntimeError")]
                  /\ oracle' = o1
                  /\ dirs' = dirs
             ELSE \E rc \in Ask(f0.inst, "build", {"ok", "fail"}), decodable \in BOOLEAN :
                  /\ tasks' = [tasks EXCEPT ![cur] =
                         IF ~decodable THEN Raise(Issue(f0, tool), "UnicodeDecodeError")
                         ELSE Return(Issue(f0, tool), IF rc = "ok" THEN "True" ELSE "False")]
                  /\ oracle' = Told(o1, f0.inst, "build", rc)
                  /\ dirs' = [dirs EXCEPT ![Repo] = @ \cup {<<"build_out", cur>>}]
    /\ UNCHANGED <<variant, n, workers, mainpc, cur, validated, failed, outValidated, outFailed, registered>>

\* the line main() writes for a record
TbEntry(i, inst) == [idx |-> i, rec |-> inst]
\* `if apply_patch_and_build(pr_data)` ... `except Exception`
TbGate(f) == f.pc = "returned" /\ f.result = "True"

TbCollect ==
    /\ variant = "tb" /\ mainpc = "loop" /\ cur <= n
    /\ tasks[cur].pc \in {"returned", "raised"}
    /\ LET f == tasks[cur]
           e == TbEntry(cur, f.inst)
       IN  /\ outValidated' = [outValidated EXCEPT !.lines = ValidatedAfter(@, TbGate(f), e)]
           /\ outFailed' = [outFailed EXCEPT !.lines = FailedAfter(@, TbGate(f), e)]
    /\ tasks' = [tasks EXCEPT ![cur] = Collected]
    /\ cur' = cur + 1
    /\ UNCHANGED <<variant, n, workers, mainpc, validated, failed, dirs, registered, oracle>>

\* the loop over the input lines is over; the files are closed
TbDone ==
    /\ variant = "tb" /\ mainpc = "loop" /\ cur > n
    /\ mainpc' = "done"
    /\ UNCHANGED <<variant, n, workers, cur, tasks, validated, failed, outValidated, outFailed, dirs, registered, oracle>>

NextTb ==
    \/ TbSetup \/ TbCall \/ TbReset \/ TbCheckout \/ TbApply \/ TbBuild \/ TbCollect \/ TbDone

\* ====================================================== validate_maven_builds
\* main() keeps log[:1000]
BuildLogChars == 1000
InstancesMvn ==
    LET full == [instance_id : {"i1"}, pull_number : {"n1"}, base_commit : {"c1"},
                 patch : {"module"}, test_patch : {"tp"}]
        keysets == {AllKeys, AllKeys \ {"pull_number"}, AllKeys \ {"base_commit"},
                    AllKeys \ {"patch"}}
    IN  {Restrict(f, ks) : f \in full, ks \in keysets}

MvnAt(pc) == variant = "mvn" /\ mainpc = "loop" /\ cur <= n /\ tasks[cur].pc = pc

\* validate_maven_builds.run_cmd decodes the output strictly: output that is
\* not valid UTF-8 raises UnicodeDecodeError out of run_cmd, whatever the
\* exit status; a command killed at the timeout has no output to decode
MvnUndecodable(a, decodable) == ~decodable /\ a.rc # "timeout"

\* validate_maven_builds.run_cmd(cmd, cwd) -> (success, output)
MvnRunCmd(stage, a) ==
    IF a.rc = "timeout" THEN [success |-> FALSE, log |-> Literal("Timeout")]
    ELSE [success |-> a.rc = "ok", log |-> Captured(stage, a.len)]

\* main() reads pull_number and calls validate_instance(instance), which
\* enters TemporaryDirectory()
MvnCall ==
    /\ MvnAt("pending")
    /\ \E inst \in InstancesMvn :
         LET f == [pc |-> "clone", inst |-> inst, result |-> [success |-> FALSE, log |-> EmptyText],
                   tmp |-> NoDir, issued |-> <<>>, rc |-> "none", exc |-> "none"]
         IN  IF ~Has(inst, "pull_number")
             THEN /\ tasks' = [tasks EXCEPT ![cur] = Raise(f, "KeyError")]
                  /\ dirs' = dirs
             ELSE \E t \in TmpNames \ DOMAIN dirs :
                  /\ tasks' = [tasks EXCEPT ![cur] = [f EXCEPT !.tmp = t]]
                  /\ dirs' = AddFiles(dirs, t, {})
    /\ UNCHANGED <<variant, n, workers, mainpc, cur, validated, failed, outValidated, outFailed, registered, oracle>>

\* git clone REPO_URL .
MvnClone ==
    /\ MvnAt("clone")
    /\ \E a \in Answers(BuildLogChars), decodable \in BOOLEAN :
         LET f == Ran(tasks[cur], "clone", a)
             r == MvnRunCmd("clone", a)
         IN  IF MvnUndecodable(a, decodable)
             THEN /\ tasks' = [tasks EXCEPT ![cur] = Raise(f, "UnicodeDecodeError")]
                  /\ dirs' = RemoveDir(dirs, f.tmp)
             ELSE IF ~r.success
             THEN /\ tasks' = [tasks EXCEPT ![cur] =
                         Return(f, [success |-> FALSE, log |-> Literal("Clone failed")])]
                  /\ dirs' = RemoveDir(dirs, f.tmp)
             ELSE /\ tasks' = [tasks EXCEPT ![cur] = [f EXCEPT !.pc = "checkout"]]
                  /\ dirs' = AddFiles(dirs, f.tmp, {<<"repo", cur>>})
    /\ UNCHANGED <<variant, n, workers, mainpc, cur, validated, failed, outValidated, outFailed, registered, oracle>>

\* git checkout instance["base_commit"]
MvnCheckout ==
    /\ MvnAt("checkout")
    /\ LET f0 == tasks[cur] IN
       IF ~Has(f0.inst, "base_commit")
       THEN /\ tasks' = [tasks EXCEPT ![cur] = Raise(f0, "KeyError")]
            /\ dirs' = RemoveDir(dirs, f0.tmp)
       ELSE \E a \in Answers(BuildLogChars), decodable \in BOOLEAN :
              LET f == Ran(f0, "checkout", a)
                  r == MvnRunCmd("checkout", a)
              IN  IF MvnUndecodable(a, decodable)
                  THEN /\ tasks' = [tasks EXCEPT ![cur] = Raise(f, "UnicodeDecodeError")]
                       /\ dirs' = RemoveDir(dirs, f.tmp)
                  ELSE IF ~r.success
                  THEN /\ tasks' = [tasks EXCEPT ![cur] =
                              Return(f, [success |-> FALSE, log |-> Literal("Checkout failed")])]
                       /\ dirs' = RemoveDir(dirs, f.tmp)
                  ELSE /\ tasks' = [tasks EXCEPT ![cur] = [f EXCEPT !.pc = "patch"]]
                       /\ dirs' = AddFiles(dirs, f.tmp, {<<"base_commit", cur>>})
    /\ UNCHANGED <<variant, n, workers, mainpc, cur, validated, failed, outValidated, outFailed, registered, oracle>>

\* apply_patch(instance["patch"], tmpdir)
MvnPatch ==
    /\ MvnAt("patch")
    /\ LET f0 == tasks[cur] IN
       IF ~Has(f0.inst, "patch")
       THEN /\ tasks' = [tasks EXCEPT ![cur] = Raise(f0, "KeyError")]
            /\ dirs' = RemoveDir(dirs, f0.tmp)
       ELSE \E written \in BOOLEAN :
            IF ~written
            THEN /\ tasks' = [tasks EXCEPT ![cur] = Raise(f0, "OSError")]
                 /\ dirs' = RemoveDir(dirs, f0.tmp)
            ELSE \E a \in Answers(BuildLogChars), decodable \in BOOLEAN :
              LET f == Ran(f0, "patch", a)
                  r == MvnRunCmd("patch", a)
              IN  IF MvnUndecodable(a, decodable)
                  THEN /\ tasks' = [tasks EXCEPT ![cur] = Raise(f, "UnicodeDecodeError")]
                       /\ dirs' = RemoveDir(dirs, f.tmp)
                  ELSE IF ~r.success
                  THEN /\ tasks' = [tasks EXCEPT ![cur] =
                              Return(f, [success |-> FALSE, log |-> Prefixed("Patch failed: ", r.log)])]
                       /\ dirs' = RemoveDir(dirs, f.tmp)
                  ELSE /\ tasks' = [tasks EXCEPT ![cur] = [f EXCEPT !.pc = "build"]]
                       /\ dirs' = AddFiles(dirs, f.tmp, {<<"patch.diff", cur>>, <<"patched", cur>>})
    /\ UNCHANGED <<variant, n, workers, mainpc, cur, validated, failed, outValidated, outFailed, registered, oracle>>

\* mvn clean install -DskipTests; its (success, out) is returned
MvnBuild ==
    /\ MvnAt("build")
    /\ \E a \in Answers(BuildLogChars), decodable \in BOOLEAN :
         LET f == Ran(tasks[cur], "build", a)
         IN  /\ tasks' = [tasks EXCEPT ![cur] =
                    IF MvnUndecodable(a, decodable) THEN Raise(f, "UnicodeDecodeError")
                    ELSE Return(f, MvnRunCmd("build", a))]
             /\ dirs' = RemoveDir(dirs, f.tmp)
    /\ UNCHANGED <<variant, n, workers, mainpc, cur, validated, failed, outValidated, outFailed, registered, oracle>>

\* instance["maven_build_passed"] = success; the build_log is left out
MvnEntry(i, inst, result) == [idx |-> i, rec |-> Put(inst, "maven_build_passed", result.success)]
\* `if success`
MvnGate(result) == result.success

MvnCollect ==
    /\ MvnAt("returned")
    /\ LET f == tasks[cur]
           e == MvnEntry(cur, f.inst, f.result)
       IN  /\ validated' = ValidatedAfter(validated, MvnGate(f.result), e)
           /\ failed' = FailedAfter(failed, MvnGate(f.result), e)
    /\ tasks' = [tasks EXCEPT ![cur] = Collected]
    /\ cur' = cur + 1
    /\ UNCHANGED <<variant, n, workers, mainpc, outValidated, outFailed, dirs, registered, oracle>>

\* an exception left the loop body; nothing catches it
MvnAbort ==
    /\ MvnAt("raised")
    /\ mainpc' = "aborted"
    /\ UNCHANGED <<variant, n, workers, cur, tasks, validated, failed, outValidated, outFailed, dirs, registered, oracle>>

NextMvn ==
    \/ MvnCall \/ MvnClone \/ MvnCheckout \/ MvnPatch \/ MvnBuild \/ MvnCollect \/ MvnAbort

\* ========================================================== apptainer_build
\* build_def(dataset): one sandbox is provisioned per test spec, serially.
RECURSIVE ReplaceColon(_)
\* s.replace(":", "__")
ReplaceColon(s) ==
    IF Len(s) = 0 THEN s
    ELSE (IF s[1] = ":" THEN <<"_", "_">> ELSE <<s[1]>>) \o ReplaceColon(Tail(s))

\* DEF_IMAGE_BUILD_DIR / test_spec.instance_image_key.replace(":", "__")
BuildDir(test_spec) == <<"build", ReplaceColon(test_spec.instance_image_key)>>

ImageKeys == {<<"a", ":", "1">>, <<"b", ":", "1">>}
TestSpecs == [instance_id : {"i1", "i2"}, instance_image_key : ImageKeys]

\* f"Failed to ...:\n{result.stderr}": the step the text names, and the
\* captured stderr it carries
Message(step) == [step |-> step, carries |-> TRUE]
\* BuildImageError(image_name, message, logger): str(e) holds the message;
\* a call with fewer arguments is a TypeError, whose text holds neither
BuildImageError(args) ==
    IF Len(args) = 3 THEN [type |-> "BuildImageError", step |-> args[2].step, carries |-> args[2].carries]
    ELSE [type |-> "TypeError", step |-> "none", carries |-> FALSE]
OtherError(type) == [type |-> type, step |-> "none", carries |-> FALSE]
NoError == OtherError("none")
\* a record of the instance's build_image.log
LogRecord(level, step, carries) == [level |-> level, step |-> step, carries |-> carries]

DefAt(pc) == variant = "def" /\ mainpc = "loop" /\ cur <= n /\ tasks[cur].pc = pc

\* the loop takes the next test spec; setup_logger opens build_image.log in
\* the build directory
DefStart ==
    /\ DefAt("pending")
    /\ \E ts \in TestSpecs :
         /\ tasks' = [tasks EXCEPT ![cur] =
                [pc |-> "pull", inst |-> ts, tmp |-> BuildDir(ts), issued |-> <<>>, rc |-> "none",
                 exc |-> NoError, log |-> <<>>, closed |-> 0]]
         /\ dirs' = AddFiles(dirs, BuildDir(ts), {<<"build_image.log", cur>>})
    /\ UNCHANGED <<variant, n, workers, mainpc, cur, validated, failed, outValidated, outFailed, registered, oracle>>

\* DefFailed that logs the failure and goes on with the next step
DefFailed_NoRaise(f, step, error) ==
    [f EXCEPT !.pc = CASE step = "pull" -> "unpack"
                       [] step = "unpack" -> "setup_env.sh"
                       [] step = "setup_env.sh" -> "setup_repo.sh"
                       [] OTHER -> "built",
              !.log = Append(@, LogRecord("info", step, TRUE))]

\* frame after a step exited non-zero: the info record, then the raise
DefFailed(f, step, error) ==
    [f EXCEPT !.pc = "except", !.exc = error,
              !.log = Append(@, LogRecord("info", step, TRUE))]

\* subprocess.run(..., text=True) inside the try block: output that is not
\* valid text raises UnicodeDecodeError once the command has ended, before
\* the exit status is looked at
DefUndecodable(f) == [f EXCEPT !.pc = "except", !.exc = OtherError("UnicodeDecodeError")]

\* apptainer pull apptainer_base.sif docker://...
DefPull ==
    /\ DefAt("pull")
    /\ \E rc \in {"ok", "fail"}, decodable \in BOOLEAN :
         LET f == Ran(tasks[cur], "pull", [rc |-> rc]) IN
         \* apptainer does not overwrite an image file that exists
         /\ Named(dirs[f.tmp], "apptainer_base.sif") => rc = "fail"
         /\ dirs' = IF rc = "fail" THEN dirs ELSE AddFiles(dirs, f.tmp, {<<"apptainer_base.sif", cur>>})
         /\ tasks' = [tasks EXCEPT ![cur] =
                IF ~decodable THEN DefUndecodable(f)
                ELSE IF rc = "fail"
                THEN DefFailed(f, "pull", BuildImageError(<<f.inst.instance_id, Message("pull"), "logger">>))
                ELSE [f EXCEPT !.pc = "unpack"]]
    /\ UNCHANGED <<variant, n, workers, mainpc, cur, validated, failed, outValidated, outFailed, registered, oracle>>

\* apptainer build --sandbox apptainer_sandbox apptainer_base.sif
DefUnpack ==
    /\ DefAt("unpack")
    /\ \E rc \in {"ok", "fail"}, decodable \in BOOLEAN :
         LET f == Ran(tasks[cur], "unpack", [rc |-> rc]) IN
         /\ dirs' = IF rc = "fail" THEN dirs ELSE AddFiles(dirs, f.tmp, {<<"apptainer_sandbox", cur>>})
         /\ tasks' = [tasks EXCEPT ![cur] =
                IF ~decodable THEN DefUndecodable(f)
                ELSE IF rc = "fail"
                THEN DefFailed(f, "unpack", BuildImageError(<<f.inst.instance_id, Message("unpack"), "logger">>))
                ELSE [f EXCEPT !.pc = "setup_env.sh"]]
    /\ UNCHANGED <<variant, n, workers, mainpc, cur, validated, failed, outValidated, outFailed, registered, oracle>>

\* one round of the loop over setup_scripts: the script is written, copied
\* into the sandbox and run there
DefSetupStep(name, nextpc) ==
    /\ DefAt(name)
    /\ \E copied \in BOOLEAN :
         LET f0 == tasks[cur] IN
         IF ~copied
         THEN /\ tasks' = [tasks EXCEPT ![cur] = [f0 EXCEPT !.pc = "except", !.exc = OtherError("OSError")]]
              /\ dirs' = AddFiles(dirs, f0.tmp, {<<name, cur>>})
         ELSE \E rc \in {"ok", "fail"}, decodable \in BOOLEAN :
              LET f == Ran(f0, name, [rc |-> rc]) IN
              /\ tasks' = [tasks EXCEPT ![cur] =
                     IF ~decodable THEN DefUndecodable(f)
                     ELSE IF rc = "fail"
                     THEN DefFailed(f, name, BuildImageError(<<Message(name), "logger">>))
                     ELSE [f EXCEPT !.pc = nextpc]]
              /\ dirs' = AddFiles(dirs, f.tmp, {<<name, cur>>})
    /\ UNCHANGED <<variant, n, workers, mainpc, cur, validated, failed, outValidated, outFailed, registered, oracle>>

DefSetupEnv == variant = "def" /\ DefSetupStep("setup_env.sh", "setup_repo.sh")
DefSetupRepo == variant = "def" /\ DefSetupStep("setup_repo.sh", "built")

\* logger.info("Apptainer sandbox image built successfully"), after the loop
DefBuilt ==
    /\ DefAt("built")
    /\ tasks' = [tasks EXCEPT ![cur] = [@ EXCEPT !.pc = "finally", !.log = Append(@, LogRecord("info", "built", FALSE))]]
    /\ UNCHANGED <<variant, n, workers, mainpc, cur, validated, failed, outValidated, outFailed, dirs, registered, oracle>>

\* DefExcept of a build_def without the except clause: the logger is closed
\* by the finally block and the exception leaves build_def
DefExcept_Escapes ==
    /\ DefAt("except")
    /\ tasks' = [tasks EXCEPT ![cur] = [@ EXCEPT !.pc = "finished", !.closed = @ + 1]]
    /\ mainpc' = "raised"
    /\ UNCHANGED <<variant, n, workers, cur, validated, failed, outValidated, outFailed, dirs, registered, oracle>>

\* except Exception as e: logger.error(f"Error building image: {e}")
DefExcept ==
    /\ DefAt("except")
    /\ LET f == tasks[cur] IN
       tasks' = [tasks EXCEPT ![cur] =
           [f EXCEPT !.pc = "finally", !.log = Append(@, LogRecord("error", f.exc.step, f.exc.carries))]]
    /\ UNCHANGED <<variant, n, workers, mainpc, cur, validated, failed, outValidated, outFailed, dirs, registered, oracle>>

\* finally: close_logger(logger); the loop goes on to the next test spec
DefFinally ==
    /\ DefAt("finally")
    /\ tasks' = [tasks EXCEPT ![cur] = [@ EXCEPT !.pc = "finished", !.closed = @ + 1]]
    /\ cur' = cur + 1
    /\ UNCHANGED <<variant, n, workers, mainpc, validated, failed, outValidated, outFailed, dirs, registered, oracle>>

\* build_def returns
DefReturn ==
    /\ variant = "def" /\ mainpc = "loop" /\ cur > n
    /\ mainpc' = "returned"
    /\ UNCHANGED <<variant, n, workers, cur, tasks, validated, failed, outValidated, outFailed, dirs, registered, oracle>>

NextDef ==
    \/ DefStart \/ DefPull \/ DefUnpack \/ DefSetupEnv \/ DefSetupRepo \/ DefBuilt \/ DefExcept
    \/ DefFinally \/ DefReturn

\* main(): the two output files are written after the loop
WriteValidated ==
    /\ variant \in {"enh", "fast", "mvn"}
    /\ mainpc = "loop" /\ LoopDone
    /\ outValidated' = [open |-> TRUE, lines |-> validated]
    /\ mainpc' = "write_failed"
    /\ UNCHANGED <<variant, n, workers, cur, tasks, validated, failed, outFailed, dirs, registered, oracle>>

WriteFailed ==
    /\ variant \in {"enh", "fast", "mvn"}
    /\ mainpc = "write_failed"
    /\ outFailed' = [open |-> TRUE, lines |-> failed]
    /\ mainpc' = "done"
    /\ UNCHANGED <<variant, n, workers, cur, tasks, validated, failed, outValidated, dirs, registered, oracle>>

NextEnh ==
    \/ EnhCall \/ EnhClone \/ EnhCheckout \/ EnhDisableWerror \/ EnhPatch \/ EnhBuild
    \/ EnhTestPatch \/ EnhTest \/ EnhCollect \/ EnhAbort

Next == NextEnh \/ NextFast \/ NextTb \/ NextMvn \/ NextDef \/ WriteValidated \/ WriteFailed

Spec == Init /\ [][Next]_vars

\* maven_enhanced_fast.main() with the pool size as a parameter:
\* ThreadPoolExecutor(max_workers = workers) for workers in 1..MaxWorkers
InitPool ==
    /\ variant = "fast"
    /\ n \in 1..MaxBatch
    /\ workers \in 1..MaxWorkers
    /\ mainpc = "loop"
    /\ cur = 1
    /\ tasks = [i \in 1..n |-> Pending]
    /\ validated = <<>>
    /\ failed = <<>>
    /\ outValidated = [open |-> FALSE, lines |-> <<>>]
    /\ outFailed = [open |-> FALSE, lines |-> <<>>]
    /\ dirs = [x \in {Cwd, Repo} |-> {}]
    /\ registered = {}
    /\ oracle = [k \in {} |-> "ok"]
NextPool == NextFast \/ WriteValidated \/ WriteFailed
SpecPool == InitPool /\ [][NextPool]_vars

\* extract_submodule_from_patch on its own: it is called on a patch whose
\* first header is `diff --git a/P b/P`, P drawn from the paths below
Segments == {<<"m">>, <<"m", "a">>, Str_src, <<"F">>, <<"a">>}
Paths == UNION {[1..k -> Segments] : k \in 1..MaxSegs}
HeaderLine(segs) ==
    << <<"d">>, <<"-">>, <<"a", "/">> \o JoinSlash(segs), <<"b", "/">> \o JoinSlash(segs) >>
InitExtract ==
    /\ variant = "extract"
    /\ n = 1
    /\ workers = MAX_WORKERS
    /\ mainpc = "loop"
    /\ cur = 1
    /\ tasks = <<Pending>>
    /\ validated = <<>>
    /\ failed = <<>>
    /\ outValidated = [open |-> FALSE, lines |-> <<>>]
    /\ outFailed = [open |-> FALSE, lines |-> <<>>]
    /\ dirs = [x \in {Cwd} |-> {}]
    /\ registered = {}
    /\ oracle = [k \in {} |-> "ok"]
ExtractCall ==
    /\ variant = "extract" /\ tasks[1].pc = "pending"
    /\ \E segs \in Paths :
         tasks' = <<[pc |-> "extracted", inst |-> segs,
                    result |-> extract_lines(<<HeaderLine(segs)>>)]>>
    /\ UNCHANGED <<variant, n, workers, mainpc, cur, validated, failed, outValidated, outFailed, dirs, registered, oracle>>
SpecExtract == InitExtract /\ [][ExtractCall]_vars

\* ===================================================================== claims
Entries(list) == {list[k] : k \in 1..Len(list)}
Count(list, i) == Cardinality({k \in 1..Len(list) : list[k].idx = i})
Finished(i) == tasks[i].pc \in {"returned", "raised"}
Issued(f, stage) == \E k \in 1..Len(f.issued) : f.issued[k] = stage
Times(f, stage) == Cardinality({k \in 1..Len(f.issued) : f.issued[k] = stage})
LastIssued(f) == IF Len(f.issued) = 0 THEN "none" ELSE f.issued[Len(f.issued)]

\* C1: when main() has run to its end, every record of the input file has
\* exactly one line in the two output files together: in one of them, once.
C1_ExactlyOneRecord ==
    mainpc = "done" =>
        \A i \in 1..n : Count(outValidated.lines, i) + Count(outFailed.lines, i) = 1
C1_Witness ==
    /\ mainpc = "done" /\ n >= 2
    /\ Len(outValidated.lines) >= 1 /\ Len(outFailed.lines) >= 1

MilestonesOrdered(r) ==
    /\ r.test_build_passed => r.test_patch_applied
    /\ r.test_patch_applied => r.patch_build_passed
    /\ r.patch_build_passed => r.patch_applied
\* C2: in every result maven_enhanced.validate_instance returns, and in every
\* record routed from one, test_build_passed implies test_patch_applied, which
\* implies patch_build_passed, which implies patch_applied.
C2_MilestonesMonotonic ==
    variant = "enh" =>
        /\ \A i \in 1..n : tasks[i].pc = "returned" => MilestonesOrdered(tasks[i].result)
        /\ \A e \in Entries(validated) \cup Entries(failed) : MilestonesOrdered(e.rec)
C2_Witness ==
    \E i \in 1..n : /\ variant = "enh" /\ tasks[i].pc = "returned"
                    /\ tasks[i].result.test_build_passed

\* C3: an exception raised by the validation of one record never makes
\* main() give up the batch.
C3_InstanceFailureNeverAborts ==
    (\E i \in 1..n : tasks[i].pc = "raised") => mainpc \notin {"aborting", "aborted"}

\* C4: every call of maven_enhanced_fast.validate_instance that has asked for
\* a worktree and has ended, by return or by exception, has run
\* remove_worktree exactly once.
C4_TeardownExactlyOnce ==
    variant = "fast" =>
        \A i \in 1..n : Finished(i) /\ Issued(tasks[i], "worktree") => Times(tasks[i], "remove") = 1

InProgress(i) == tasks[i].pc \notin {"pending", "returned", "raised", "collected"}
\* C5: the directory a validation works in holds no file that the validation
\* of another record wrote, and two validations in progress work in
\* different directories.
C5_Isolation ==
    /\ \A i \in 1..n : InProgress(i) /\ tasks[i].tmp \in DOMAIN dirs =>
           \A x \in dirs[tasks[i].tmp] : x[2] = i
    /\ \A i, j \in 1..n : i # j /\ InProgress(i) /\ InProgress(j) => tasks[i].tmp # tasks[j].tmp

\* C6 as stated: a record is in `validated` exactly when its patch build
\* passed and, if it has a test patch, its test build passed too.
C6_RoutedByPatchAndTest ==
    variant = "enh" =>
        \A e \in Entries(validated) \cup Entries(failed) :
            e \in Entries(validated) <=>
                (e.rec.patch_build_passed /\ (HasTestPatch(e.rec) => e.rec.test_build_passed))
\* C6 as amended: a record is in `validated` exactly when its patch build
\* passed, whatever became of its test patch, and in `failed` otherwise.
C6_RoutedByPatchBuild ==
    variant = "enh" =>
        /\ \A e \in Entries(validated) : e.rec.patch_build_passed
        /\ \A e \in Entries(failed) : ~e.rec.patch_build_passed
C6_Witness ==
    \E e \in Entries(validated) :
        variant = "enh" /\ Has(e.rec, "test_patch") /\ e.rec["test_patch"] # "" /\ ~e.rec.test_build_passed

\* the record carries no test patch: the key is absent or its text is empty
NoTestPatch(rec) == ~Has(rec, "test_patch") \/ rec["test_patch"] = ""

\* C7: a record whose test_patch is empty or absent never has the test patch
\* applied nor the tests run; its result has both test milestones false and
\* an empty test_build_log, and it is routed to `validated` exactly when its
\* patch build passed.
C7_NoTestStageWithoutTestPatch ==
    variant = "enh" =>
        /\ \A i \in 1..n : tasks[i].pc \notin {"pending", "collected"} /\ NoTestPatch(tasks[i].inst) =>
               /\ ~Issued(tasks[i], "test_patch") /\ ~Issued(tasks[i], "test")
               /\ tasks[i].pc \notin {"test_patch", "test"}
               /\ ~tasks[i].result.test_patch_applied /\ ~tasks[i].result.test_build_passed
               /\ tasks[i].result.test_build_log = EmptyText
        /\ \A e \in Entries(validated) \cup Entries(failed) : NoTestPatch(e.rec) =>
               /\ ~e.rec.test_patch_applied /\ ~e.rec.test_build_passed
               /\ e \in Entries(validated) <=> e.rec.patch_build_passed
C7_Witness ==
    \E e \in Entries(validated) :
        variant = "enh" /\ NoTestPatch(e.rec) /\ e.rec.patch_build_passed

\* C8: no log string of a returned result is longer than MAX_LOG_SIZE.
C8_LogsBounded ==
    \A i \in 1..n : tasks[i].pc = "returned" =>
        /\ variant = "enh" => /\ TextLen(tasks[i].result.patch_build_log) <= MAX_LOG_SIZE
                              /\ TextLen(tasks[i].result.test_build_log) <= MAX_LOG_SIZE
        /\ variant = "fast" => TextLen(tasks[i].result["build_log"]) <= MAX_LOG_SIZE_FAST

\* the ids the collection pipeline writes: a file name without a slash
DatasetIds == {"i1"}
\* the tools gave both validations the same answers: the same commands were
\* run and the last one ended alike (the ones before it succeeded)
C9_SameAnswers(f, g) == f.inst = g.inst /\ f.issued = g.issued /\ f.rc = g.rc
C9_TestBuild ==
    variant = "tb" =>
        \A a \in Entries(outValidated.lines), b \in Entries(outFailed.lines) :
            a.rec = b.rec => a.rec["instance_id"] \notin DatasetIds
C9_Worktree ==
    variant = "fast" =>
        /\ \A i, j \in 1..n :
               /\ tasks[i].pc = "returned" /\ tasks[j].pc = "returned"
               /\ C9_SameAnswers(tasks[i], tasks[j])
               => /\ tasks[i].result["build_passed"] = tasks[j].result["build_passed"]
                  /\ tasks[i].result["pr_status"] = tasks[j].result["pr_status"]
        /\ \A i \in 1..n :
               /\ tasks[i].pc = "worktree" => dirs[tasks[i].tmp] = {}
               /\ tasks[i].pc \in {"patch", "build", "teardown"} =>
                      \A x \in dirs[tasks[i].tmp] : x[2] = i
ProvisioningFailed(f) == LastIssued(f) \in {"clone", "checkout", "worktree"}
C10_Result ==
    \A i \in 1..n : tasks[i].pc = "returned" /\ ProvisioningFailed(tasks[i]) =>
        /\ \A s \in {"patch", "build", "test_patch", "test"} : ~Issued(tasks[i], s)
        /\ variant = "enh" =>
              /\ ~tasks[i].result.patch_applied /\ ~tasks[i].result.patch_build_passed
              /\ ~tasks[i].result.test_patch_applied /\ ~tasks[i].result.test_build_passed
        /\ variant = "fast" => ~tasks[i].result["build_passed"]
C10_Routed ==
    \A i \in 1..n :
        tasks[i].pc = "returned" /\ ProvisioningFailed(tasks[i]) /\ tasks'[i].pc = "collected" =>
            /\ validated' = validated
            /\ Len(failed') = Len(failed) + 1 /\ failed'[Len(failed')].idx = i
\* C10: a validation that ends because the clone, the checkout or the
\* worktree creation failed has applied no patch and run no build, returns
\* every milestone false, and main() puts its record in `failed`.
C10_ProvisioningFailure == []C10_Result /\ [][C10_Routed]_vars
C10_Witness ==
    /\ \E i \in 1..n : tasks[i].pc = "returned" /\ LastIssued(tasks[i]) = "checkout"
    /\ \E k \in 1..Len(failed) : ~failed[k].rec.patch_applied /\ Has(failed[k].rec, "base_commit")

\* C11: a build command of maven_enhanced that runs into the timeout ends the
\* validation by a normal return whose result has patch_build_passed false
\* and, as patch_build_log, the timeout marker and nothing else.
C11_BuildTimeout ==
    variant = "enh" =>
        \A i \in 1..n :
            tasks[i].pc \notin {"pending", "collected"} /\ LastIssued(tasks[i]) = "build"
                /\ tasks[i].rc = "timeout" =>
                    /\ tasks[i].pc = "returned"
                    /\ ~tasks[i].result.patch_build_passed
                    /\ tasks[i].result.patch_build_log = Literal(" Timeout")
C11_Witness ==
    \E i \in 1..n : /\ variant = "enh" /\ tasks[i].pc = "returned"
                    /\ LastIssued(tasks[i]) = "build" /\ tasks[i].rc = "timeout"

\* the patch of frame f names no build target
NoTarget(f) == \/ \A k \in 1..Len(PatchLines(f.inst["patch"])) :
                      ~(IsDiffLine(PatchLines(f.inst["patch"])[k]) /\ Len(PatchLines(f.inst["patch"])[k]) > 2)
               \/ f.inst["patch"] = "root"
C12_Result ==
    variant = "enh" =>
        \A i \in 1..n :
            tasks[i].pc \notin {"pending", "collected"} /\ Issued(tasks[i], "patch")
                /\ tasks[i].rc = "ok" /\ NoTarget(tasks[i]) =>
                    /\ tasks[i].pc \in {"build", "returned"}
                    /\ ~Issued(tasks[i], "build")
                    /\ tasks[i].result.patch_applied /\ ~tasks[i].result.patch_build_passed
C12_Routed ==
    variant = "enh" =>
        \A i \in 1..n :
            tasks[i].pc = "returned" /\ LastIssued(tasks[i]) = "patch" /\ tasks[i].rc = "ok"
                /\ NoTarget(tasks[i]) /\ tasks'[i].pc = "collected" =>
                    /\ validated' = validated
                    /\ Len(failed') = Len(failed) + 1 /\ failed'[Len(failed')].idx = i
\* C12: when the patch of a maven_enhanced validation applied and no build
\* target can be derived from it (no diff header, or a file at the repository
\* root), no build command is issued, the result has patch_applied true and
\* patch_build_passed false, and main() puts the record in `failed`.
C12_NoBuildTarget == []C12_Result /\ [][C12_Routed]_vars
C12_Witness ==
    \E i \in 1..n : /\ variant = "enh" /\ tasks[i].pc = "returned"
                    /\ LastIssued(tasks[i]) = "patch" /\ tasks[i].rc = "ok"
                    /\ tasks[i].inst["patch"] = "root"

\* C13: no validation ends by an exception that run_cmd raised for a command
\* that exited non-zero: the failing command is a normal return to its caller.
C13_RunCmdNeverRaises ==
    \A i \in 1..n : tasks[i].pc = "raised" => tasks[i].exc # "CalledProcessError"

\* C14: the patch file is written into the directory the validation works
\* in, and the path handed to `git apply` resolves, from that directory, to
\* the file just written.
C14_PatchFileResolved ==
    variant = "tb" =>
        \A i \in 1..n : tasks[i].pc \notin {"pending", "collected"} /\ Issued(tasks[i], "apply") =>
            /\ tasks[i].wrote = tasks[i].tmp
            /\ tasks[i].read = tasks[i].wrote

StageOrder ==
    IF variant = "enh" THEN <<"clone", "checkout", "patch", "build", "test_patch", "test">>
    ELSE <<"clone", "checkout", "patch", "build">>
Framed(f) == f.pc \notin {"pending", "collected"}
C15_Order ==
    variant \in {"enh", "mvn"} =>
        \A i \in 1..n : Framed(tasks[i]) =>
            /\ Len(tasks[i].issued) <= Len(StageOrder)
            /\ tasks[i].issued = SubSeq(StageOrder, 1, Len(tasks[i].issued))
            /\ tasks[i].rc \in {"fail", "timeout"} => tasks[i].pc \in {"returned", "raised"}
C15_Step ==
    variant \in {"enh", "mvn"} =>
        \A i \in 1..n : Framed(tasks[i]) /\ Framed(tasks'[i]) /\ tasks'[i].issued # tasks[i].issued =>
            /\ tasks[i].rc \in {"none", "ok"}
            /\ Len(tasks'[i].issued) = Len(tasks[i].issued) + 1
            /\ SubSeq(tasks'[i].issued, 1, Len(tasks[i].issued)) = tasks[i].issued
\* C15: the commands one validation of maven_enhanced or validate_maven_builds
\* has issued are always an initial part of clone, checkout, patch apply,
\* build, test-patch apply, test, each once; a command is issued only when
\* the previous one succeeded, and a command that failed or timed out is
\* the last one of its validation.
C15_StrictStageOrder == []C15_Order /\ [][C15_Step]_vars
C15_Witness ==
    \E i \in 1..n : /\ variant = "enh" /\ tasks[i].pc = "returned"
                    /\ Len(tasks[i].issued) = 6 /\ tasks[i].rc = "fail"

Indices(list) == {list[k].idx : k \in 1..Len(list)}
\* C16: whatever the pool size and the order in which the futures complete,
\* a record is in `validated` exactly when its own build passed and in
\* `failed` otherwise, and a run that ends has every record in one of them.
C16_PartitionByOwnOutcome ==
    variant = "fast" =>
        /\ \A e \in Entries(validated) : e.rec["build_passed"]
        /\ \A e \in Entries(failed) : ~e.rec["build_passed"]
        /\ \A i \in 1..n : Count(validated, i) + Count(failed, i) <= 1
        /\ \A i \in 1..n : tasks[i].pc = "collected" <=> i \in Indices(validated) \cup Indices(failed)
        /\ mainpc = "done" => Indices(validated) \cup Indices(failed) = 1..n
\* the second record's build passed and was collected while the first is
\* still building
C16_Witness ==
    /\ variant = "fast" /\ workers = 2 /\ n = 2
    /\ tasks[1].pc = "build" /\ tasks[2].pc = "collected"
    /\ 2 \in Indices(validated)

\* C17: a sandbox provisioning in which a step exited non-zero ran no later
\* step, and the error recorded for it names that step and carries the
\* output captured from it.
C17_ErrorNamesStep ==
    variant = "def" =>
        \A i \in 1..n : tasks[i].pc = "finished" /\ tasks[i].rc = "fail" =>
            \E k \in 1..Len(tasks[i].log) :
                /\ tasks[i].log[k].level = "error"
                /\ tasks[i].log[k].step = LastIssued(tasks[i])
                /\ tasks[i].log[k].carries

\* C18: two test specs with different instance ids never get the same
\* build directory.
C18_BuildDirsDistinct ==
    variant = "def" =>
        \A i, j \in 1..n :
            /\ Framed(tasks[i]) /\ Framed(tasks[j])
            /\ tasks[i].inst.instance_id # tasks[j].inst.instance_id
            => tasks[i].tmp # tasks[j].tmp

C19_Exit ==
    variant \in {"enh", "fast", "mvn", "tb"} =>
        \A i \in 1..n :
            /\ tasks[i].pc \notin {"returned", "raised", "collected"}
            /\ tasks'[i].pc \in {"returned", "raised"}
            /\ Len(tasks'[i].issued) > 0
            => tasks'[i].tmp \notin DOMAIN dirs'
\* C19: at the step by which a validation that ran a command returns or
\* raises, the directory it worked in no longer exists.
C19_EnvironmentRemovedOnExit == [][C19_Exit]_vars

\* C20: whenever no validation is in progress, the shared clone is as it was
\* before the first one: no worktree is registered in it and its working
\* tree holds nothing a validation wrote.
C20_SharedCloneUnchanged ==
    variant \in {"fast", "tb"} /\ Repo \in DOMAIN dirs /\ (\A i \in 1..n : ~InProgress(i)) =>
        registered = {} /\ dirs[Repo] = {}

\* C21: when `git apply` is about to be run on the patch, the checkout holds
\* the clone at base_commit and nothing else: no file of it was modified
\* after the checkout.
C21_CheckoutUntouchedAtApply ==
    variant = "enh" =>
        \A i \in 1..n : tasks[i].pc = "patch" =>
            \A x \in dirs[tasks[i].tmp] : x[1] \in {"repo", "base_commit"}

\* the log field in which a result keeps the output of the command `stage`
StageLog(f, stage) ==
    IF variant = "enh"
    THEN (IF stage \in {"test_patch", "test"} THEN f.result.test_build_log ELSE f.result.patch_build_log)
    ELSE IF variant = "fast" THEN f.result["build_log"]
    ELSE f.result.log
\* the last stage command of frame f, the teardown command left aside
LastStage(f) ==
    LET stages == SelectSeq(f.issued, LAMBDA c : c # "remove")
    IN  IF Len(stages) = 0 THEN "none" ELSE stages[Len(stages)]
\* C24: a result returned after its last stage command exited non-zero
\* holds, in that stage's log field, characters captured from that command.
C24_FailingOutputKept ==
    variant \in {"enh", "fast", "mvn"} =>
        \A i \in 1..n : tasks[i].pc = "returned" /\ tasks[i].rc = "fail" =>
            LET log == StageLog(tasks[i], LastStage(tasks[i]))
            IN  log.cap >= 1 /\ log.src = LastStage(tasks[i])

\* the build target of the path segs: the segments before the first `src`
\* segment, or else the parent directory
ExpectedTarget(segs) ==
    IF \E j \in 1..Len(segs) : segs[j] = <<"s", "r", "c">>
    THEN LET idx == CHOOSE j \in 1..Len(segs) :
                        segs[j] = <<"s", "r", "c">> /\ \A k \in 1..(j - 1) : segs[k] # <<"s", "r", "c">>
         IN  JoinSlash(SubSeq(segs, 1, idx - 1))
    ELSE JoinSlash(SubSeq(segs, 1, Len(segs) - 1))
\* C22: for a patch whose first header names the path P,
\* extract_submodule_from_patch returns the segments of P before its first
\* `src` segment, or the parent directory of P when it has none.
C22_BuildTargetOfPath ==
    variant = "extract" /\ tasks[1].pc = "extracted" =>
        tasks[1].result = Some(ExpectedTarget(tasks[1].inst))

\* the marker files the environment root of frame f holds
MarkersOf(f) == oracle[<<f.inst, "markers">>]
Detected(f) == Issued(f, "gradle") \/ Issued(f, "maven") \/ f.exc = "RuntimeError"
C23_Detection ==
    /\ variant = "tb" =>
          \A i \in 1..n : Framed(tasks[i]) /\ Detected(tasks[i]) =>
              /\ MarkersOf(tasks[i]) \in {"gradlew", "both"} =>
                     Issued(tasks[i], "gradle") /\ ~Issued(tasks[i], "maven")
              /\ MarkersOf(tasks[i]) = "pom.xml" =>
                     Issued(tasks[i], "maven") /\ ~Issued(tasks[i], "gradle")
              /\ MarkersOf(tasks[i]) = "neither" =>
                     /\ ~Issued(tasks[i], "gradle") /\ ~Issued(tasks[i], "maven")
                     /\ tasks[i].pc = "raised"
    /\ variant = "enh" =>
          \A i \in 1..n :
              /\ tasks[i].pc = "returned"
              /\ tasks[i].result.patch_build_log = Literal(" gradlew not found in repo root.")
              => ~Issued(tasks[i], "build") /\ ~tasks[i].result.patch_build_passed
C23_Routed ==
    variant = "tb" =>
        \A i \in 1..n :
            tasks[i].pc = "raised" /\ tasks[i].exc = "RuntimeError" /\ tasks'[i].pc # "raised" =>
                /\ tasks'[i].pc = "collected"
                /\ outValidated' = outValidated
                /\ Len(outFailed'.lines) = Len(outFailed.lines) + 1
                /\ outFailed'.lines[Len(outFailed'.lines)].idx = i
                /\ mainpc' = "loop"
\* C23: the build tool is the gradle wrapper when gradlew exists, also next
\* to a pom.xml, and maven when only pom.xml exists; when neither exists no
\* build command is issued, the record is written to the failed file and the
\* batch goes on.
C23_BuildToolDetection == []C23_Detection /\ [][C23_Routed]_vars
C23_Witness ==
    /\ variant = "tb" /\ n = 2 /\ tasks[1].pc = "collected"
    /\ Len(outFailed.lines) = 1 /\ tasks[2].pc = "checkout"
    /\ <<outFailed.lines[1].rec, "markers">> \in DOMAIN oracle
    /\ oracle[<<outFailed.lines[1].rec, "markers">>] = "neither"

ActivePcs == {"worktree", "patch", "build", "teardown", "leave"}
C25_Bounded ==
    variant = "fast" =>
        /\ Cardinality({i \in 1..n : tasks[i].pc \in ActivePcs}) <= MAX_WORKERS
        /\ DOMAIN tasks = 1..n
C25_StartedOnce ==
    variant = "fast" =>
        \A i \in 1..n : tasks[i].pc # "pending" => tasks'[i].pc # "pending"
\* C25: at most MAX_WORKERS validations of maven_enhanced_fast are between
\* their start and the end of their teardown at any moment; a validation
\* that has started is never started again, and there is one per record.
C25_PoolBound == []C25_Bounded /\ [][C25_StartedOnce]_vars
C25_Witness ==
    /\ variant = "fast" /\ n = 2
    /\ tasks[1].pc = "returned" /\ tasks[2].pc = "teardown"

\* C26: every step of maven_enhanced_fast moves some validation or main()
\* forward, so a run goes on until no step is left; it is left with no step
\* only when every validation has ended and both output files are written.
C26_StopsOnlyWhenWritten ==
    variant = "fast" /\ ~ENABLED Next =>
        /\ \A i \in 1..n : tasks[i].pc = "collected"
        /\ mainpc = "done" /\ outValidated.open /\ outFailed.open

DefOrder == <<"pull", "unpack", "setup_env.sh", "setup_repo.sh">>
ReportedBuilt(f) == \E k \in 1..Len(f.log) : f.log[k].step = "built"
C27_Order ==
    variant = "def" =>
        \A i \in 1..n : Framed(tasks[i]) =>
            /\ Len(tasks[i].issued) <= Len(DefOrder)
            /\ tasks[i].issued = SubSeq(DefOrder, 1, Len(tasks[i].issued))
            /\ \A name \in {"setup_env.sh", "setup_repo.sh"} :
                   Issued(tasks[i], name) => Named(dirs[tasks[i].tmp], name)
            /\ tasks[i].rc = "fail" => tasks[i].pc \in {"except", "finally", "finished"}
            /\ ReportedBuilt(tasks[i]) => tasks[i].issued = DefOrder /\ tasks[i].rc = "ok"
C27_Step ==
    variant = "def" =>
        \A i \in 1..n : Framed(tasks[i]) /\ tasks'[i].issued # tasks[i].issued =>
            tasks[i].rc \in {"none", "ok"}
\* C27: build_def runs pull, unpack, setup_env.sh, setup_repo.sh in that
\* order, each only after the one before exited zero and each script only
\* once it is copied into the build directory; the sandbox is reported as
\* built only after setup_repo.sh exited zero.
C27_SandboxStepOrder == []C27_Order /\ [][C27_Step]_vars
C27_Witness ==
    \E i \in 1..n : variant = "def" /\ tasks[i].pc = "finished" /\ ReportedBuilt(tasks[i])

C28_Teardown ==
    variant = "fast" =>
        \A i \in 1..n : tasks[i].pc = "teardown" /\ tasks'[i].pc # "teardown" =>
            /\ tasks'[i].pc = "leave"
            /\ tasks'[i].result = tasks[i].result
            /\ tasks'[i].after = tasks[i].after
            /\ tasks'[i].exc = tasks[i].exc
C28_Leave ==
    variant = "fast" =>
        \A i \in 1..n : tasks[i].pc = "leave" /\ tasks'[i].pc # "leave" =>
            /\ tasks'[i].pc = (IF tasks[i].after = "return" THEN "returned" ELSE "raised")
            /\ tasks'[i].result = tasks[i].result
            /\ tasks'[i].exc = tasks[i].exc
C28_NoEscape ==
    variant = "fast" =>
        \A i \in 1..n : tasks[i].pc = "raised" => tasks[i].exc \in {"KeyError", "OSError", "FileNotFoundError"}
\* C28: whatever `git worktree remove` answers (zero, non-zero for a worktree
\* that is already gone, or the timeout), the teardown leaves the result and
\* the pending return or exception of validate_instance as they were, and
\* the call ends with exactly those; the only exceptions that leave it are
\* those of the try block.
C28_TeardownNonFatal == []C28_NoEscape /\ [][C28_Teardown /\ C28_Leave]_vars
C28_Witness ==
    \E i \in 1..n : /\ variant = "fast" /\ tasks[i].pc = "returned"
                    /\ tasks[i].removed \in {"fail", "timeout"}
                    /\ tasks[i].result["build_passed"]

\* C29: a call of maven_enhanced_fast.validate_instance whose worktree was
\* created has issued `git worktree remove` by the time its temporary
\* directory is deleted, and no worktree is registered in the shared clone
\* under a directory that no longer exists.
C29_DeregisteredBeforeDelete ==
    variant = "fast" =>
        /\ \A i \in 1..n :
               /\ tasks[i].pc \in {"returned", "raised"}
               /\ Issued(tasks[i], "worktree") /\ LastIssued(tasks[i]) # "worktree"
               => Issued(tasks[i], "remove")
        /\ registered \subseteq DOMAIN dirs

Written == outValidated.open \/ outFailed.open \/ outValidated.lines # <<>> \/ outFailed.lines # <<>>
\* C30: in maven_enhanced, maven_enhanced_fast and validate_maven_builds
\* neither output file is opened or holds a record while a validation is
\* still to run or its result still to be collected; a run that stopped on
\* an exception has written nothing, whatever it had collected.
C30_NoWriteBeforeLastResult ==
    variant \in {"enh", "fast", "mvn"} =>
        /\ Written => \A i \in 1..n : tasks[i].pc = "collected"
        /\ mainpc \in {"aborting", "aborted"} => ~Written
C30_Witness ==
    /\ variant \in {"enh", "fast"} /\ mainpc = "aborted"
    /\ Len(validated) + Len(failed) >= 1
    /\ ~Written

C31_Closed ==
    variant = "def" =>
        /\ \A i \in 1..n : Framed(tasks[i]) =>
               tasks[i].closed = (IF tasks[i].pc = "finished" THEN 1 ELSE 0)
        /\ \A i \in 1..n : i < cur => tasks[i].pc = "finished"
        /\ \A i \in 1..n : i > cur => tasks[i].pc = "pending"
C31_GoesOn ==
    variant = "def" =>
        /\ ~ENABLED Next => mainpc = "returned"
        /\ mainpc = "returned" =>
               \A i \in 1..n : tasks[i].pc = "finished" /\ Len(tasks[i].issued) >= 1
\* C31: in build_def the logger of a test spec is closed once, and only when
\* its provisioning is over, before the next test spec is taken, whether the
\* pull, the unpacking or a setup script failed or all succeeded; build_def
\* stops only after it has run the provisioning of every test spec.
C31_LoggerClosedAndLoopGoesOn == C31_Closed /\ C31_GoesOn
C31_Witness ==
    /\ variant = "def" /\ n = 2 /\ mainpc = "returned"
    /\ tasks[1].rc = "fail" /\ tasks[1].closed = 1
    /\ ReportedBuilt(tasks[2]) /\ tasks[2].closed = 1

ResultKeys == {"build_passed", "build_log", "pr_status"}
C32_Returning(f) == f.pc = "returned" \/ (f.pc = "leave" /\ f.after = "return")
\* C32: every result that maven_enhanced_fast.validate_instance returns, on
\* the worktree-failure, patch-failure and build paths alike, has
\* build_passed, build_log and pr_status set (build_passed to a boolean,
\* pr_status to the text of its path), so main() can read both.
C32_ResultKeysSet ==
    variant = "fast" =>
        \A i \in 1..n : C32_Returning(tasks[i]) =>
            /\ ResultKeys \subseteq DOMAIN tasks[i].result
            /\ tasks[i].result["build_passed"] \in BOOLEAN
            /\ tasks[i].result["pr_status"] \in
                   {"Worktree creation failed", "Patch failed", "Passed", "Failed"}
            /\ tasks[i].result["build_passed"] <=> tasks[i].result["pr_status"] = "Passed"
C32_Witness ==
    \E i \in 1..n : /\ variant = "fast" /\ tasks[i].pc = "returned"
                    /\ LastStage(tasks[i]) = "patch" /\ tasks[i].rc = "fail"
                    /\ tasks[i].result["pr_status"] = "Patch failed"
====
